---- MODULE Spec2Model ----
(***************************************************************************)
(* Model of the DeepSpeech/CTC training scripts main.py and tpu_train.py:  *)
(* the loss validity gate, the train and validation passes, the epoch      *)
(* loop of train_eval_fn, save_checkpoint on a small file system, and the  *)
(* multi-worker XLA runs (gradient synchronisation, learning rate, shared  *)
(* checkpoint path).                                                       *)
(*                                                                         *)
(* Floats are modelled as nan, +inf, -inf or an exact rational n/d, with   *)
(* Python's comparison rules for nan; rounding is not modelled.            *)
(***************************************************************************)
EXTENDS Integers, Sequences, FiniteSets, TLC

\* ---------------------------------------------------------------- bounds
MaxTrain == 2
MaxVal == 3
MaxBatch == 2
MaxEpochs == 2
MaxWorkers == 2
MaxDistEpochs == 1

\* ---------------------------------------------------------------- floats
NaN == [k |-> "nan", n |-> 0, d |-> 1]
PInf == [k |-> "pinf", n |-> 0, d |-> 1]
NInf == [k |-> "ninf", n |-> 0, d |-> 1]
Fin(i) == [k |-> "fin", n |-> i, d |-> 1]

RECURSIVE GCD(_, _)
GCD(a, b) == IF b = 0 THEN a ELSE GCD(b, a % b)

Abs(i) == IF i < 0 THEN 0 - i ELSE i

Rat(n, d) ==
    LET g == GCD(Abs(n), d)
    IN [k |-> "fin", n |-> n \div g, d |-> d \div g]

\* a == b on floats: nan equals nothing, not even itself
FEq(a, b) ==
    IF a.k = "nan" \/ b.k = "nan" THEN FALSE
    ELSE IF a.k = "fin" /\ b.k = "fin" THEN a.n * b.d = b.n * a.d
    ELSE a.k = b.k

\* a < b on floats: every comparison with nan is false
FLt(a, b) ==
    IF a.k = "nan" \/ b.k = "nan" THEN FALSE
    ELSE IF a.k = "pinf" \/ b.k = "ninf" THEN FALSE
    ELSE IF a.k = "ninf" \/ b.k = "pinf" THEN TRUE
    ELSE a.n * b.d < b.n * a.d

\* a + b on floats
FAdd(a, b) ==
    IF a.k = "nan" \/ b.k = "nan" THEN NaN
    ELSE IF a.k = "fin" /\ b.k = "fin" THEN Rat(a.n * b.d + b.n * a.d, a.d * b.d)
    ELSE IF a.k = "fin" THEN b
    ELSE IF b.k = "fin" THEN a
    ELSE IF a.k = b.k THEN a
    ELSE NaN

\* a / i for a float a and an integer i > 0
FDivInt(a, i) ==
    IF a.k = "fin" THEN Rat(a.n, a.d * i) ELSE a

\* Python's min(a, b): the first argument unless the second is smaller
PyMin(a, b) == IF FLt(b, a) THEN b ELSE a

\* the loss values an iteration may produce
LossValues == {NaN, PInf, NInf, Fin(0 - 1), Fin(0), Fin(1)}

\* loss.item() of a one-element tensor
item(loss) == loss[1]

\* ------------------------------------------------------------ check_loss
ERR_INF == "WARNING: received an inf loss"
ERR_NAN == "WARNING: received a nan loss, setting loss value to 0"
ERR_NEG == "WARNING: received a negative loss"

check_loss_negative_first(loss, loss_value) ==
    IF FLt(loss_value, Fin(0))
    THEN [loss_valid |-> FALSE, error |-> ERR_NEG]
    ELSE IF FEq(loss_value, PInf) \/ FEq(loss_value, NInf)
    THEN [loss_valid |-> FALSE, error |-> ERR_INF]
    ELSE IF Cardinality({i \in DOMAIN loss : loss[i].k = "nan"}) > 0
    THEN [loss_valid |-> FALSE, error |-> ERR_NAN]
    ELSE [loss_valid |-> TRUE, error |-> ""]

check_loss(loss, loss_value) ==
    IF FEq(loss_value, PInf) \/ FEq(loss_value, NInf)
    THEN [loss_valid |-> FALSE, error |-> ERR_INF]
    ELSE IF Cardinality({i \in DOMAIN loss : loss[i].k = "nan"}) > 0
    THEN [loss_valid |-> FALSE, error |-> ERR_NAN]
    ELSE IF FLt(loss_value, Fin(0))
    THEN [loss_valid |-> FALSE, error |-> ERR_NEG]
    ELSE [loss_valid |-> TRUE, error |-> ""]

\* ----------------------------------------------------------- file system
BEST_PATH == "model_best.pth"
CheckpointPaths == {"", "ckpt.pth"}

tempfile_is_filename(filename) == filename

tempfile(filename) == filename \o ".temp"

Paths == CheckpointPaths \cup {tempfile(p) : p \in CheckpointPaths} \cup {BEST_PATH}

NoData == [epoch |-> 0, state_dict |-> 0, best_loss |-> Fin(0), optimizer |-> 0]

\* a file: whether it exists, whether its content is a whole record, the
\* record, and the inode (the process and epoch that created it)
MainInode == <<0, 0>>
Absent == [exists |-> FALSE, complete |-> FALSE, data |-> NoData, ino |-> MainInode]
Partial(data) == [exists |-> TRUE, complete |-> FALSE, data |-> data, ino |-> MainInode]
Complete(data) == [exists |-> TRUE, complete |-> TRUE, data |-> data, ino |-> MainInode]

\* what an earlier run of the program may have left behind
PriorData == [epoch |-> 0, state_dict |-> 0, best_loss |-> Fin(1), optimizer |-> 0]

isfile(files, path) == files[path].exists

\* ------------------------------------------------------------ data loader
\* len(DataLoader(dataset, batch_size, drop_last=True))
LoaderLen(size, batch_size) == size \div batch_size

\* the examples of the b-th batch of an unshuffled loader
BatchExamples(b, batch_size) == ((b - 1) * batch_size + 1) .. (b * batch_size)


\* ------------------------------------------------------------- operators
\* get_optimizer(args, parameters): the optimizer is built from args alone
get_optimizer(a) == [kind |-> a.optimizer, lr |-> a.learning_rate, steps |-> 0]

\* the value added to running_loss: loss_value, or 0 after a skipped update
effective_loss_keep(valid, loss_value) == loss_value

effective_loss(valid, loss_value) == IF valid THEN loss_value ELSE Fin(0)

\* optimizer.step() of a torch optimizer: one more parameter update
optimizer_step(p) == p + 1

\* compute_wer(out, labels, ...) -> (wers, n_words): the decoded output is
\* not modelled, so the error count is any of these for n_words words
WerOutcomes(n_words) == {0, n_words}

\* the reference word counts of a batch: none (empty transcripts) or some
WordCounts == {0, 1}

\* ------------------------------------------------------------- variables
VARIABLES
    args,            \* parsed command line
    train_dataset,   \* number of training examples
    test_dataset,    \* number of validation examples
    pc,              \* position of the process in train_eval_fn
    exc,             \* the exception that ended the run, "" if none
    epoch,
    step,            \* enumerate(loader, 1) index in train_loop_fn
    loss,            \* loss tensor of the last training iteration
    valid_loss,      \* check_loss result of the last training iteration
    error,
    params,          \* model parameters: the updates applied so far
    optimizer,       \* optimizer record; steps is its internal state
    running_loss,
    iteration,
    total_words,
    cumulative_wer,
    avg_loss,
    best_loss,
    is_best,
    state_dict,      \* the checkpoint record being saved
    files,           \* path -> file content
    h_valid_sum,     \* history: sum of the valid loss values of the pass
    h_iters,         \* history: loop bodies run in the pass
    h_pre,           \* history: parameters and optimizer before the iteration
    h_ran,           \* history: backward / step calls of the last iteration
    h_seen,          \* history: times each validation example was scored
    h_val,           \* history: validation loss of each finished epoch
    h_prev,          \* history: canonical file after the last completed save
    h_saves,         \* history: save_checkpoint calls
    entry,           \* the script that was started
    world_size,      \* xm.xrt_world_size()
    lr,              \* the local lr of the distributed entry points
    replica          \* ordinal -> state of that worker process

vars == <<args, train_dataset, test_dataset, pc, exc, epoch, step, loss,
          valid_loss, error, params, optimizer, running_loss, iteration,
          total_words, cumulative_wer, avg_loss, best_loss, is_best,
          state_dict, files, h_valid_sum, h_iters, h_pre, h_ran, h_seen,
          h_val, h_prev, h_saves, entry, world_size, lr, replica>>

inputs == <<args, train_dataset, test_dataset>>
distVars == <<entry, world_size, lr, replica>>
fixed == <<inputs, distVars>>
gateVars == <<loss, valid_loss, error, h_pre, h_ran>>
trainVars == <<step, h_valid_sum, h_iters>>
modelVars == <<params, optimizer>>
metricVars == <<running_loss, iteration, total_words, cumulative_wer, avg_loss, h_seen>>
ckptVars == <<best_loss, is_best, state_dict, files, h_val, h_prev, h_saves>>

LogStepsChoices == {1, 2}
LearningRates == {3}

Args == [batch_size : 1 .. MaxBatch,
         num_epochs : 0 .. MaxEpochs,
         log_steps : LogStepsChoices,
         checkpoint : CheckpointPaths,
         optimizer : {"adam"},
         learning_rate : LearningRates]

\* the file system a run starts on: empty, or what an interrupted earlier
\* run left (a complete checkpoint and a half-written temp file); the empty
\* path never names a file
InitialFiles(a) ==
    { [p \in Paths |-> Absent],
      [p \in Paths |->
          IF p = "" THEN Absent
          ELSE IF p = a.checkpoint THEN Complete(PriorData)
          ELSE IF p = tempfile(a.checkpoint) THEN Partial(PriorData)
          ELSE Absent] }

\* locals and history before anything has run
MainLocalsInit ==
    /\ exc = ""
    /\ epoch = 0
    /\ step = 0
    /\ loss = <<Fin(0)>>
    /\ valid_loss = TRUE
    /\ error = ""
    /\ params = 0
    /\ optimizer = get_optimizer(args)
    /\ running_loss = Fin(0)
    /\ iteration = 0
    /\ total_words = 0
    /\ cumulative_wer = 0
    /\ avg_loss = Fin(0)
    /\ best_loss = Fin(1)
    /\ is_best = FALSE
    /\ state_dict = NoData
    /\ h_valid_sum = 0
    /\ h_iters = 0
    /\ h_pre = <<0, 0>>
    /\ h_ran = {}
    /\ h_val = <<>>
    /\ h_saves = 0

\* main(): loaders, model, optimizer; train_eval_fn entered, best_loss = 1.0
Init ==
    /\ args \in Args
    /\ train_dataset \in 0 .. MaxTrain
    /\ test_dataset \in 0 .. MaxVal
    /\ pc = "epoch_head"
    /\ MainLocalsInit
    /\ files \in InitialFiles(args)
    /\ h_seen = [i \in 1 .. test_dataset |-> 0]
    /\ h_prev = files[args.checkpoint]
    /\ entry = "main.py"
    /\ world_size = 1
    /\ lr = args.learning_rate
    /\ replica = <<>>

Raise(name) == pc' = "crashed" /\ exc' = name

\* for epoch in range(1, num_epochs + 1): next epoch; train_loop_fn entered
StartEpoch ==
    /\ pc = "epoch_head"
    /\ epoch < args.num_epochs
    /\ epoch' = epoch + 1
    /\ running_loss' = Fin(0)
    /\ iteration' = 0
    /\ step' = 0
    /\ h_valid_sum' = 0
    /\ h_iters' = 0
    /\ pc' = "train_loop"
    /\ UNCHANGED <<fixed, exc, gateVars, modelVars, total_words, cumulative_wer,
                   avg_loss, h_seen, ckptVars>>

\* the epoch range is exhausted: train_eval_fn returns
Finish ==
    /\ pc = "epoch_head"
    /\ epoch >= args.num_epochs
    /\ pc' = "done"
    /\ UNCHANGED <<fixed, exc, epoch, gateVars, trainVars, modelVars, metricVars, ckptVars>>

\* one body of the loop of train_loop_fn
TrainIteration ==
    /\ pc = "train_loop"
    /\ step < LoaderLen(train_dataset, args.batch_size)
    /\ \E l \in LossValues :
       \E n_words \in IF (step + 1) % args.log_steps = 0 THEN WordCounts ELSE {1} :
         LET t == <<l>>
             loss_value == item(t)
             chk == check_loss(t, loss_value)
         IN /\ step' = step + 1
            /\ loss' = t
            /\ valid_loss' = chk.loss_valid
            /\ error' = chk.error
            /\ h_pre' = <<params, optimizer.steps>>
            /\ IF chk.loss_valid
               THEN /\ params' = optimizer_step(params)
                    /\ optimizer' = [optimizer EXCEPT !.steps = @ + 1]
                    /\ h_ran' = {"backward", "step"}
               ELSE /\ UNCHANGED modelVars
                    /\ h_ran' = {}
            /\ iteration' = iteration + 1
            /\ running_loss' = FAdd(running_loss, effective_loss(chk.loss_valid, loss_value))
            /\ h_iters' = h_iters + 1
            /\ h_valid_sum' = h_valid_sum + (IF l.k = "fin" /\ l.n >= 0 THEN l.n ELSE 0)
            /\ IF (step + 1) % args.log_steps = 0 /\ n_words = 0
               THEN Raise("ZeroDivisionError: wers / n_words")
               ELSE UNCHANGED <<pc, exc>>
    /\ UNCHANGED <<fixed, epoch, total_words, cumulative_wer, avg_loss, h_seen, ckptVars>>

\* the loader is exhausted: avg_loss = running_loss / iteration
TrainEnd ==
    /\ pc = "train_loop"
    /\ step >= LoaderLen(train_dataset, args.batch_size)
    /\ IF iteration = 0
       THEN Raise("ZeroDivisionError: running_loss / iteration") /\ UNCHANGED avg_loss
       ELSE /\ avg_loss' = FDivInt(running_loss, iteration)
            /\ pc' = "train_done"
            /\ UNCHANGED exc
    /\ UNCHANGED <<fixed, epoch, gateVars, trainVars, modelVars, running_loss,
                   iteration, total_words, cumulative_wer, h_seen, ckptVars>>

\* train_loop_fn has returned: its locals no longer exist
TrainLocalsDropped ==
    /\ step' = 0
    /\ loss' = <<Fin(0)>>
    /\ valid_loss' = TRUE
    /\ error' = ""
    /\ avg_loss' = Fin(0)
    /\ h_valid_sum' = 0
    /\ h_iters' = 0
    /\ h_pre' = <<0, 0>>
    /\ h_ran' = {}

\* test_loop_fn has returned avg_loss: its other locals no longer exist
TestLocalsDropped ==
    /\ running_loss' = Fin(0)
    /\ iteration' = 0
    /\ total_words' = 0
    /\ cumulative_wer' = 0
    /\ h_seen' = [i \in 1 .. test_dataset |-> 0]

\* test_loop_fn entered: its accumulators start at zero
TestBegin ==
    /\ pc = "train_done"
    /\ running_loss' = Fin(0)
    /\ total_words' = 0
    /\ cumulative_wer' = 0
    /\ iteration' = 0
    /\ h_seen' = [i \in 1 .. test_dataset |-> 0]
    /\ pc' = "test_loop"
    /\ TrainLocalsDropped
    /\ UNCHANGED <<fixed, exc, epoch, modelVars, ckptVars>>

\* one body of the loop of test_loop_fn
TestIteration ==
    /\ pc = "test_loop"
    /\ iteration < LoaderLen(test_dataset, args.batch_size)
    /\ \E l \in LossValues, n_words \in WordCounts :
       \E wers \in WerOutcomes(n_words) :
         /\ iteration' = iteration + 1
         /\ running_loss' = FAdd(running_loss, l)
         /\ cumulative_wer' = cumulative_wer + wers
         /\ total_words' = total_words + n_words
         /\ h_seen' = [i \in 1 .. test_dataset |->
                          IF i \in BatchExamples(iteration + 1, args.batch_size)
                          THEN h_seen[i] + 1 ELSE h_seen[i]]
    /\ UNCHANGED <<fixed, pc, exc, epoch, gateVars, trainVars, modelVars, avg_loss, ckptVars>>

\* the loader is exhausted: the two means are computed, avg_loss returned
TestEnd ==
    /\ pc = "test_loop"
    /\ iteration >= LoaderLen(test_dataset, args.batch_size)
    /\ IF iteration = 0 \/ total_words = 0
       THEN /\ Raise(IF iteration = 0 THEN "ZeroDivisionError: running_loss / iteration"
                      ELSE "ZeroDivisionError: cumulative_wer / total_words")
            /\ avg_loss' = IF iteration = 0 THEN avg_loss
                           ELSE FDivInt(running_loss, iteration)
       ELSE /\ avg_loss' = FDivInt(running_loss, iteration)
            /\ pc' = "checkpointing"
            /\ UNCHANGED exc
    /\ UNCHANGED <<fixed, epoch, gateVars, trainVars, modelVars, running_loss,
                   iteration, total_words, cumulative_wer, h_seen, ckptVars>>

\* is_best, best_loss and the checkpoint record; save_checkpoint entered
Checkpointing ==
    /\ pc = "checkpointing"
    /\ is_best' = FLt(avg_loss, best_loss)
    /\ best_loss' = PyMin(avg_loss, best_loss)
    /\ state_dict' = [epoch |-> epoch, state_dict |-> params,
                      best_loss |-> best_loss', optimizer |-> optimizer.steps]
    /\ h_val' = Append(h_val, avg_loss)
    /\ h_saves' = h_saves + 1
    /\ pc' = "save_remove"
    /\ TestLocalsDropped
    /\ UNCHANGED <<fixed, exc, epoch, gateVars, trainVars, modelVars, avg_loss, files,
                   h_prev>>

\* if os.path.isfile(tempfile): os.remove(tempfile)
SaveRemoveTemp ==
    /\ pc = "save_remove"
    /\ files' = IF isfile(files, tempfile(args.checkpoint))
                THEN [files EXCEPT ![tempfile(args.checkpoint)] = Absent]
                ELSE files
    /\ pc' = "save_open"
    /\ UNCHANGED <<fixed, exc, epoch, gateVars, trainVars, modelVars, metricVars,
                   best_loss, is_best, state_dict, h_val, h_prev, h_saves>>

\* torch.save opens the temp file for writing
SaveOpen ==
    /\ pc = "save_open"
    /\ files' = [files EXCEPT ![tempfile(args.checkpoint)] = Partial(state_dict)]
    /\ pc' = "save_write"
    /\ UNCHANGED <<fixed, exc, epoch, gateVars, trainVars, modelVars, metricVars,
                   best_loss, is_best, state_dict, h_val, h_prev, h_saves>>

\* torch.save writes the whole record and closes the file
SaveWrite ==
    /\ pc = "save_write"
    /\ files' = [files EXCEPT ![tempfile(args.checkpoint)] = Complete(state_dict)]
    /\ pc' = "save_rename"
    /\ UNCHANGED <<fixed, exc, epoch, gateVars, trainVars, modelVars, metricVars,
                   best_loss, is_best, state_dict, h_val, h_prev, h_saves>>

\* torch.save fails: before the file is created, or partway through
SaveFail ==
    /\ pc \in {"save_open", "save_write"}
    /\ Raise("OSError: torch.save")
    /\ UNCHANGED <<fixed, epoch, gateVars, trainVars, modelVars, metricVars, ckptVars>>

\* if os.path.isfile(tempfile): os.rename(tempfile, filename)
SaveRename ==
    /\ pc = "save_rename"
    /\ IF ~isfile(files, tempfile(args.checkpoint))
       THEN pc' = "save_copy" /\ UNCHANGED <<exc, files>>
       ELSE IF args.checkpoint = ""
       THEN Raise("FileNotFoundError") /\ UNCHANGED files
       ELSE /\ files' = [files EXCEPT ![args.checkpoint] = files[tempfile(args.checkpoint)],
                                      ![tempfile(args.checkpoint)] = Absent]
            /\ pc' = "save_copy"
            /\ UNCHANGED exc
    /\ UNCHANGED <<fixed, epoch, gateVars, trainVars, modelVars, metricVars,
                   best_loss, is_best, state_dict, h_val, h_prev, h_saves>>

\* if is_best: shutil.copyfile(filename, "model_best.pth"); save_checkpoint
\* returns and the epoch ends
SaveCopy ==
    /\ pc = "save_copy"
    /\ files' = IF is_best THEN [files EXCEPT ![BEST_PATH] = files[args.checkpoint]]
                ELSE files
    /\ pc' = "epoch_head"
    /\ h_prev' = files'[args.checkpoint]
    /\ is_best' = FALSE
    /\ state_dict' = NoData
    /\ avg_loss' = Fin(0)
    /\ UNCHANGED <<fixed, exc, epoch, gateVars, trainVars, modelVars, running_loss,
                   iteration, total_words, cumulative_wer, h_seen, best_loss, h_val,
                   h_saves>>

\* shutil.copyfile fails partway
SaveCopyFail ==
    /\ pc = "save_copy"
    /\ is_best
    /\ files' = [files EXCEPT ![BEST_PATH] = Partial(files[args.checkpoint].data)]
    /\ Raise("OSError: copyfile")
    /\ UNCHANGED <<fixed, epoch, gateVars, trainVars, modelVars, metricVars,
                   best_loss, is_best, state_dict, h_val, h_prev, h_saves>>

Next ==
    \/ StartEpoch
    \/ Finish
    \/ TrainIteration
    \/ TrainEnd
    \/ TestBegin
    \/ TestIteration
    \/ TestEnd
    \/ Checkpointing
    \/ SaveRemoveTemp
    \/ SaveOpen
    \/ SaveWrite
    \/ SaveFail
    \/ SaveRename
    \/ SaveCopy
    \/ SaveCopyFail

Spec == Init /\ [][Next]_vars

\* --------------------------------------------- one function at a time
\* The passes and the save are also checked on their own, with the rest of
\* the epoch summarised by everything it can hand over.

\* the validation pass and the checkpoint of an epoch, summarised: they
\* leave the model and the optimizer as the training pass left them
EvalAndSave ==
    /\ pc = "train_done"
    /\ pc' = "epoch_head"
    /\ TrainLocalsDropped
    /\ UNCHANGED <<fixed, exc, epoch, modelVars, running_loss, iteration, total_words,
                   cumulative_wer, h_seen, ckptVars>>

InitTrain ==
    /\ Init
    /\ test_dataset = 0
    /\ args.checkpoint = "ckpt.pth"
    /\ ~isfile(files, args.checkpoint)

NextTrain ==
    \/ StartEpoch
    \/ Finish
    \/ TrainIteration
    \/ TrainEnd
    \/ EvalAndSave

SpecTrain == InitTrain /\ [][NextTrain]_vars

\* the training and validation passes of an epoch, summarised: up to one
\* update per training batch, and any validation loss
EpochPasses ==
    /\ pc = "epoch_head"
    /\ epoch < args.num_epochs
    /\ epoch' = epoch + 1
    /\ \E k \in 0 .. LoaderLen(train_dataset, args.batch_size) :
         /\ params' = params + k
         /\ optimizer' = [optimizer EXCEPT !.steps = @ + k]
    /\ avg_loss' \in LossValues
    /\ pc' = "checkpointing"
    /\ UNCHANGED <<fixed, exc, gateVars, trainVars, running_loss, iteration,
                   total_words, cumulative_wer, h_seen, ckptVars>>

InitSave ==
    /\ Init
    /\ train_dataset = 1
    /\ test_dataset = 1
    /\ args.batch_size = 1
    /\ args.log_steps = 1

NextSave ==
    \/ EpochPasses
    \/ Finish
    \/ Checkpointing
    \/ SaveRemoveTemp
    \/ SaveOpen
    \/ SaveWrite
    \/ SaveFail
    \/ SaveRename
    \/ SaveCopy
    \/ SaveCopyFail

SpecSave == InitSave /\ [][NextSave]_vars

\* ------------------------------------------------ the distributed runs
\* xmp.spawn starts world_size processes; each runs _main_xla of main.py or
\* train_deepspeech of tpu_train.py.  The processes meet only in
\* xm.optimizer_step (the all-reduce of the gradients, which returns when
\* every process has entered it) and on the file system.  _main_xla reads
\* the undefined name in_features and passes train_eval_fn no log_steps;
\* the workers are modelled as if both were supplied, without the logging
\* of the batch WER.  running_loss is not kept: iteration alone decides
\* whether the mean can be computed.

mainVars == <<pc, exc, epoch, gateVars, trainVars, modelVars, metricVars, best_loss,
              is_best, state_dict, h_val, h_prev, h_saves>>

Ordinals == 0 .. world_size - 1

\* DistributedSampler: every replica gets ceil(len(dataset) / num_replicas) samples
SamplerLen(size, num_replicas) == (size + num_replicas - 1) \div num_replicas

ReplicaBatches == LoaderLen(SamplerLen(train_dataset, world_size), args.batch_size)

\* optim.SGD(model.parameters(), lr=lr, momentum=args.momentum)
sgd_optimizer(rate) == [kind |-> "sgd", lr |-> rate, steps |-> 0]

\* the optimizer a worker builds
build_optimizer(script, a, rate) ==
    IF script = "main.py" THEN get_optimizer(a) ELSE sgd_optimizer(rate)

\* what a validation pass may return: below best_loss = 1.0, or not
ValOutcomes == {Fin(0), Fin(1)}

SavePcs == {"save_remove", "save_open", "save_write", "save_rename", "save_copy"}

InitialReplica ==
    [pc |-> "epoch_head", exc |-> "", epoch |-> 0, step |-> 0, valid_loss |-> TRUE,
     params |-> 0, optimizer |-> build_optimizer(entry, args, lr), pre |-> <<0, 0>>,
     avg_loss |-> Fin(0), best_loss |-> Fin(1), is_best |-> FALSE,
     state_dict |-> NoData, ino |-> MainInode]

InitDist ==
    /\ args \in Args
    /\ args.checkpoint = "ckpt.pth"
    /\ args.log_steps = 1
    /\ args.num_epochs <= MaxDistEpochs
    /\ train_dataset \in 0 .. MaxTrain * MaxWorkers
    /\ test_dataset \in 0 .. 1
    /\ entry \in {"main.py", "tpu_train.py"}
    /\ world_size \in 1 .. MaxWorkers
    /\ lr = args.learning_rate * world_size
    /\ replica = [w \in Ordinals |-> InitialReplica]
    /\ files = [p \in Paths |-> Absent]
    /\ pc = "spawned"
    /\ MainLocalsInit
    /\ h_seen = [i \in 1 .. test_dataset |-> 0]
    /\ h_prev = Absent

DistFrame == <<inputs, entry, world_size, lr, mainVars>>

\* for epoch in range(1, num_epochs + 1), in either script
XStartEpoch(w) ==
    /\ replica[w].pc = "epoch_head"
    /\ replica[w].epoch < args.num_epochs
    /\ replica' = [replica EXCEPT ![w].epoch = @ + 1, ![w].step = 0,
                                  ![w].pc = "train_loop"]
    /\ UNCHANGED <<DistFrame, files>>

XFinish(w) ==
    /\ replica[w].pc = "epoch_head"
    /\ replica[w].epoch >= args.num_epochs
    /\ replica' = [replica EXCEPT ![w].pc = "done"]
    /\ UNCHANGED <<DistFrame, files>>

\* main.py, train_loop_fn with the XLAProxyOptimizer: a valid loss goes
\* through backward and clipping into xm.optimizer_step, an invalid one skips it
XTrainIteration(w) ==
    /\ entry = "main.py"
    /\ replica[w].pc = "train_loop"
    /\ replica[w].step < ReplicaBatches
    /\ \E l \in LossValues :
         LET chk == check_loss(<<l>>, item(<<l>>))
         IN replica' = [replica EXCEPT
                ![w].step = @ + 1,
                ![w].valid_loss = chk.loss_valid,
                ![w].pre = <<replica[w].params, replica[w].optimizer.steps>>,
                ![w].pc = IF chk.loss_valid THEN "sync" ELSE "train_loop"]
    /\ UNCHANGED <<DistFrame, files>>

\* tpu_train.py, train_loop_fn: backward and xm.optimizer_step whatever the loss
TTrainIteration(w) ==
    /\ entry = "tpu_train.py"
    /\ replica[w].pc = "train_loop"
    /\ replica[w].step < ReplicaBatches
    /\ \E l \in LossValues :
         LET chk == check_loss(<<l>>, item(<<l>>))
         IN replica' = [replica EXCEPT
                ![w].step = @ + 1,
                ![w].valid_loss = chk.loss_valid,
                ![w].pre = <<replica[w].params, replica[w].optimizer.steps>>,
                ![w].pc = "sync"]
    /\ UNCHANGED <<DistFrame, files>>

\* xm.optimizer_step: once every process has entered it the gradients are
\* reduced and every process applies the same update
XOptimizerStep ==
    /\ pc = "spawned"
    /\ \A w \in Ordinals : replica[w].pc = "sync"
    /\ replica' = [w \in Ordinals |->
                      [replica[w] EXCEPT !.params = optimizer_step(@),
                                         !.optimizer.steps = @ + 1,
                                         !.pc = "train_loop"]]
    /\ UNCHANGED <<DistFrame, files>>

\* main.py: avg_loss = running_loss / iteration at the end of the pass
XTrainEnd(w) ==
    /\ entry = "main.py"
    /\ replica[w].pc = "train_loop"
    /\ replica[w].step >= ReplicaBatches
    /\ replica' = IF replica[w].step = 0
                  THEN [replica EXCEPT ![w].pc = "crashed",
                                       ![w].exc = "ZeroDivisionError: running_loss / iteration"]
                  ELSE [replica EXCEPT ![w].pc = "test_loop"]
    /\ UNCHANGED <<DistFrame, files>>

\* tpu_train.py: the pass computes no mean
TTrainEnd(w) ==
    /\ entry = "tpu_train.py"
    /\ replica[w].pc = "train_loop"
    /\ replica[w].step >= ReplicaBatches
    /\ replica' = [replica EXCEPT ![w].pc = "test_loop"]
    /\ UNCHANGED <<DistFrame, files>>

\* main.py, test_loop_fn as a whole, on the unsharded validation loader
XTestPass(w) ==
    /\ entry = "main.py"
    /\ replica[w].pc = "test_loop"
    /\ \E l \in ValOutcomes, words \in WordCounts :
         replica' = IF LoaderLen(test_dataset, args.batch_size) = 0
                    THEN [replica EXCEPT ![w].pc = "crashed",
                                         ![w].exc = "ZeroDivisionError: running_loss / iteration"]
                    ELSE IF words = 0
                    THEN [replica EXCEPT ![w].pc = "crashed",
                                         ![w].exc = "ZeroDivisionError: cumulative_wer / total_words"]
                    ELSE [replica EXCEPT ![w].avg_loss = l,
                                         ![w].pc = "checkpointing"]
    /\ UNCHANGED <<DistFrame, files>>

\* tpu_train.py, test_loop_fn as a whole: it only prints
TTestPass(w) ==
    /\ entry = "tpu_train.py"
    /\ replica[w].pc = "test_loop"
    /\ replica' = [replica EXCEPT ![w].pc = "epoch_head"]
    /\ UNCHANGED <<DistFrame, files>>

\* train_eval_fn in every process: is_best, best_loss, the record, then
\* save_checkpoint(state_dict, is_best, checkpoint)
XCheckpointing(w) ==
    /\ replica[w].pc = "checkpointing"
    /\ LET r == replica[w]
           best == PyMin(r.avg_loss, r.best_loss)
       IN replica' = [replica EXCEPT
              ![w].is_best = FLt(r.avg_loss, r.best_loss),
              ![w].best_loss = best,
              ![w].state_dict = [epoch |-> r.epoch, state_dict |-> r.params,
                                 best_loss |-> best, optimizer |-> r.optimizer.steps],
              ![w].pc = "save_remove"]
    /\ UNCHANGED <<DistFrame, files>>

XSaveRemoveTemp(w) ==
    /\ replica[w].pc = "save_remove"
    /\ files' = IF isfile(files, tempfile(args.checkpoint))
                THEN [files EXCEPT ![tempfile(args.checkpoint)] = Absent]
                ELSE files
    /\ replica' = [replica EXCEPT ![w].pc = "save_open"]
    /\ UNCHANGED DistFrame

\* torch.save opens the path for writing: a new inode, or the truncated
\* inode another process has put there
XSaveOpen(w) ==
    /\ replica[w].pc = "save_open"
    /\ LET t == tempfile(args.checkpoint)
           inode == IF isfile(files, t) THEN files[t].ino
                    ELSE <<w + 1, replica[w].epoch>>
       IN /\ files' = [files EXCEPT ![t] = [exists |-> TRUE, complete |-> FALSE,
                                            data |-> replica[w].state_dict,
                                            ino |-> inode]]
          /\ replica' = [replica EXCEPT ![w].ino = inode, ![w].pc = "save_write"]
    /\ UNCHANGED DistFrame

\* torch.save writes its record into the inode it opened, wherever that
\* inode is linked by now; the content is whole once no other process is
\* still writing the same inode
XSaveWrite(w) ==
    /\ replica[w].pc = "save_write"
    /\ LET mine == replica[w].ino
           shared == \E v \in Ordinals \ {w} :
                         replica[v].pc = "save_write" /\ replica[v].ino = mine
       IN files' = [p \in Paths |->
                       IF files[p].exists /\ files[p].ino = mine
                       THEN [files[p] EXCEPT !.complete = ~shared,
                                             !.data = replica[w].state_dict]
                       ELSE files[p]]
    /\ replica' = [replica EXCEPT ![w].pc = "save_rename"]
    /\ UNCHANGED DistFrame

XSaveRename(w) ==
    /\ replica[w].pc = "save_rename"
    /\ LET t == tempfile(args.checkpoint)
       IN IF ~isfile(files, t)
          THEN /\ replica' = [replica EXCEPT ![w].pc = "save_copy"]
               /\ UNCHANGED files
          ELSE IF args.checkpoint = ""
          THEN /\ replica' = [replica EXCEPT ![w].pc = "crashed",
                                             ![w].exc = "FileNotFoundError"]
               /\ UNCHANGED files
          ELSE /\ files' = [files EXCEPT ![args.checkpoint] = files[t], ![t] = Absent]
               /\ replica' = [replica EXCEPT ![w].pc = "save_copy"]
    /\ UNCHANGED DistFrame

XSaveCopy(w) ==
    /\ replica[w].pc = "save_copy"
    /\ files' = IF replica[w].is_best
                THEN [files EXCEPT ![BEST_PATH] =
                         [files[args.checkpoint] EXCEPT !.ino = <<0 - (w + 1), replica[w].epoch>>]]
                ELSE files
    /\ replica' = [replica EXCEPT ![w].pc = "epoch_head", ![w].is_best = FALSE,
                                  ![w].state_dict = NoData, ![w].avg_loss = Fin(0)]
    /\ UNCHANGED DistFrame

NextDist ==
    \/ \E w \in Ordinals : XStartEpoch(w)
    \/ \E w \in Ordinals : XFinish(w)
    \/ \E w \in Ordinals : XTrainIteration(w)
    \/ \E w \in Ordinals : TTrainIteration(w)
    \/ XOptimizerStep
    \/ \E w \in Ordinals : XTrainEnd(w)
    \/ \E w \in Ordinals : TTrainEnd(w)
    \/ \E w \in Ordinals : XTestPass(w)
    \/ \E w \in Ordinals : TTestPass(w)
    \/ \E w \in Ordinals : XCheckpointing(w)
    \/ \E w \in Ordinals : XSaveRemoveTemp(w)
    \/ \E w \in Ordinals : XSaveOpen(w)
    \/ \E w \in Ordinals : XSaveWrite(w)
    \/ \E w \in Ordinals : XSaveRename(w)
    \/ \E w \in Ordinals : XSaveCopy(w)

SpecDist == InitDist /\ [][NextDist]_vars

\* ------------------------------------------------------------------ claims
InSaveBeforeRename == pc \in {"save_remove", "save_open", "save_write", "save_rename"}

\* C1: at every point of save_checkpoint, also after a failed or interrupted
\* write of the temp file, the file at the canonical path is absent or
\* complete, and is the content of the last completed save or the complete
\* new state; up to the rename and after a failed write it is unchanged.
C1_CanonicalNeverPartial ==
    LET c == files[args.checkpoint]
    IN /\ c.exists => c.complete
       /\ c = h_prev \/ c = Complete(state_dict)
       /\ (InSaveBeforeRename \/ exc = "OSError: torch.save") => c = h_prev

\* a write fails partway in the save after a completed one: the temp file
\* is half written and the canonical file is that of the completed save
C1_Witness ==
    /\ pc = "crashed"
    /\ exc = "OSError: torch.save"
    /\ h_saves = 2
    /\ files[tempfile(args.checkpoint)] = Partial(state_dict)
    /\ files[args.checkpoint].exists
    /\ files[args.checkpoint].data.epoch = 1

\* C3: check_loss gives every loss value exactly one outcome: +inf and -inf
\* invalid with the inf message, nan invalid with the nan message, a finite
\* negative value invalid with the negative message, every finite value
\* >= 0 valid with no message.
C3_GateClassifies ==
    h_iters > 0 =>
        LET v == item(loss)
        IN /\ v.k \in {"pinf", "ninf"} => (~valid_loss /\ error = ERR_INF)
           /\ v.k = "nan" => (~valid_loss /\ error = ERR_NAN)
           /\ (v.k = "fin" /\ v.n < 0) => (~valid_loss /\ error = ERR_NEG)
           /\ (v.k = "fin" /\ v.n >= 0) => (valid_loss /\ error = "")

\* the gate has seen -inf, which is below zero and not finite
C3_Witness ==
    /\ h_iters > 0
    /\ item(loss) = NInf
    /\ ~valid_loss
    /\ error = ERR_INF

\* C5: an iteration with an invalid loss adds zero to running_loss and one
\* to iteration, so the average of the pass is the sum of the valid loss
\* values over the number of iterations, valid and invalid.
C5_InvalidCountsAsZero ==
    /\ pc \in {"train_loop", "train_done", "crashed"} =>
           (running_loss = Fin(h_valid_sum) /\ iteration = h_iters)
    /\ pc = "train_done" => avg_loss = Rat(h_valid_sum, h_iters)

\* a pass of two iterations ends, one loss valid and positive, the last invalid
C5_Witness ==
    /\ pc = "train_done"
    /\ h_iters = 2
    /\ h_valid_sum = 1
    /\ ~valid_loss
    /\ avg_loss = Rat(1, 2)

\* C2: in an iteration whose loss check_loss classifies as invalid, neither
\* backward nor the optimizer step runs, and the parameters and the
\* optimizer state after the iteration are those before it, in the loop of
\* main.py and in the loop of tpu_train.py.
C2_InvalidLossLeavesModel ==
    /\ (pc \in {"train_loop", "train_done"} /\ h_iters > 0 /\ ~valid_loss) =>
           (h_ran = {} /\ <<params, optimizer.steps>> = h_pre)
    /\ \A w \in DOMAIN replica :
           (replica[w].pc = "train_loop" /\ replica[w].step > 0 /\ ~replica[w].valid_loss) =>
               <<replica[w].params, replica[w].optimizer.steps>> = replica[w].pre

\* the epochs whose validation loss no other epoch is below
LowestEpochs == {e \in DOMAIN h_val : \A j \in DOMAIN h_val : ~FLt(h_val[j], h_val[e])}

\* C4: after every epoch, model_best.pth holds the checkpoint saved in the
\* epoch with the lowest validation loss so far, whatever the losses are
\* (stated here for finite losses only, where "lowest" has one meaning).
C4_BestIsLowestEpoch ==
    (pc = "epoch_head" /\ epoch >= 1 /\ \A j \in DOMAIN h_val : h_val[j].k = "fin") =>
        /\ files[BEST_PATH].exists
        /\ files[BEST_PATH].complete
        /\ files[BEST_PATH].data.epoch \in LowestEpochs

C8_LearningRateScaled ==
    \A w \in DOMAIN replica :
        replica[w].optimizer.lr = args.learning_rate * world_size

IOFailures == {"OSError: torch.save", "OSError: copyfile", "FileNotFoundError"}

\* divisions by a word count that compute_wer returned
WordCountFailures == {"ZeroDivisionError: wers / n_words",
                      "ZeroDivisionError: cumulative_wer / total_words"}

\* C9: without an I/O failure train_eval_fn runs epochs 1..N in order,
\* training before validation before the one save of the epoch, reaches
\* Done after the N-th save and does nothing after it (a run that stops on
\* an empty reference transcript is not held against the claim here).
C9_RunsEpochsToDone ==
    /\ pc = "crashed" => exc \in IOFailures \cup WordCountFailures
    /\ pc = "done" => (epoch = args.num_epochs /\ h_saves = args.num_epochs)
    /\ pc \in {"train_loop", "train_done", "test_loop", "checkpointing"} =>
           h_saves = epoch - 1
    /\ pc \in SavePcs \cup {"epoch_head"} => h_saves = epoch

\* C10: when test_loop_fn ends, every example of the validation set has
\* contributed exactly once to the loss, the word errors and the word count.
C10_EveryExampleOnce ==
    pc = "checkpointing" => \A i \in 1 .. test_dataset : h_seen[i] = 1

\* C11: whenever train_loop_fn or test_loop_fn computes its mean loss, the
\* iteration count that divides running_loss is greater than zero, for every
\* dataset size and batch size: no run stops on that division.  (The word
\* counts of the claim are the return values of compute_wer and are left
\* aside here, so that the statement rests on the loaders alone.)
C11_IterationCountNonZero ==
    ~(pc = "crashed" /\ exc = "ZeroDivisionError: running_loss / iteration")

====
